---- MODULE Spec2Model ----
(***************************************************************************)
(* Project Stardust (src/App.tsx v1.1.0, src/services/geminiService.ts,    *)
(* components/Nebula.tsx = src/unnamed/part_002): the star store, the      *)
(* pending-fragment store, the interaction state and the per-frame render  *)
(* parameters, as one state machine.                                       *)
(*                                                                         *)
(* Strings the code transforms (names, text) are tuples of one-character   *)
(* strings; Str turns a tuple into the string it spells.  null is NULL     *)
(* for strings and 0 for the numeric ids.                                  *)
(*                                                                         *)
(* Math.random().toString(36).substr(2, 9) (star and fragment ids) is a    *)
(* draw of idSeq + 1: a draw that repeats an earlier one (probability      *)
(* about 36^-9) is outside the model.  Date.now() is the counter now,      *)
(* which advances with every classification call that settles.            *)
(*                                                                         *)
(* Pointer events go to the topmost element: the loading overlay (z-120),  *)
(* the category dialog (z-110) and the writing overlay (z-50) cover the    *)
(* canvas, the rail and the pending cards (z-0 .. z-20).  An element that   *)
(* has left the tree takes no further event: the exit animations of        *)
(* AnimatePresence (framer-motion, no part of src) are taken as finished   *)
(* before the next event arrives.                                          *)
(***************************************************************************)
EXTENDS Integers, Sequences, FiniteSets, TLC

(***************************** bounds **************************************)
MaxCats == 5        \* length of the category list
MaxStars == 2       \* length of the star list
MaxPending == 2     \* length of the pending-fragment list
MaxEntries == 1     \* entries written since the page was opened first
MaxFrags == 2       \* length of manualFragments
MaxIds == 4         \* ids drawn from Math.random
MaxFrames == 1      \* animation frames executed
MaxPaletteDraw == 1 \* palette indices the random colour draw reaches
MaxParticles == 6   \* particles of the field (NEBULA_PARTICLE_COUNT is 45000)

(***************************** values **************************************)
NULL == "<null>"
UNDEFINED == "<undefined>"
NoId == 0

\* fixed-point scale of the float uniforms (1.0 = One)
One == 10000

RECURSIVE Str(_)
Str(s) == IF s = <<>> THEN "" ELSE Head(s) \o Str(Tail(s))

Upper == <<"A","B","C","D","E","F","G","H","I","J","K","L","M",
           "N","O","P","Q","R","S","T","U","V","W","X","Y","Z">>
Lower == <<"a","b","c","d","e","f","g","h","i","j","k","l","m",
           "n","o","p","q","r","s","t","u","v","w","x","y","z">>

\* String.prototype.toLowerCase, one character
LowerChar(c) ==
  IF \E i \in 1..Len(Upper) : Upper[i] = c
  THEN Lower[CHOOSE i \in 1..Len(Upper) : Upper[i] = c]
  ELSE c

toLowerCase(s) == [i \in 1..Len(s) |-> LowerChar(s[i])]

\* the regular expression class \s
IsSpace(c) == c \in {" ", "\t", "\n"}

RECURSIVE TrimStart(_)
TrimStart(s) ==
  IF s # <<>> /\ IsSpace(Head(s)) THEN TrimStart(Tail(s)) ELSE s

RECURSIVE TrimEnd(_)
TrimEnd(s) ==
  IF s # <<>> /\ IsSpace(s[Len(s)]) THEN TrimEnd(SubSeq(s, 1, Len(s) - 1)) ELSE s

\* String.prototype.trim
trim(s) == TrimEnd(TrimStart(s))

\* s.replace(/\s+/g, '_'): every maximal run of white space becomes one '_'
RECURSIVE ReplaceSpaceRuns(_)
ReplaceSpaceRuns(s) ==
  IF s = <<>> THEN <<>>
  ELSE IF IsSpace(Head(s))
       THEN <<"_">> \o ReplaceSpaceRuns(TrimStart(s))
       ELSE <<Head(s)>> \o ReplaceSpaceRuns(Tail(s))

\* String.prototype.substring(a, b) for 0 <= a <= b <= length
substring(s, a, b) == SubSeq(s, a + 1, b)

\* [...new Set(s)]: first occurrences, in order
RECURSIVE Dedup(_)
Dedup(s) ==
  IF s = <<>> THEN <<>>
  ELSE LET init == Dedup(SubSeq(s, 1, Len(s) - 1))
           last == s[Len(s)]
       IN IF \E i \in 1..Len(init) : init[i] = last THEN init ELSE Append(init, last)

Range(s) == {s[i] : i \in 1..Len(s)}

(***************************** constants ***********************************)
Category(id, name, color) ==
  [id |-> id, name |-> name, color |-> color, glow |-> "0 0 20px " \o color]

\* the display names are written in pinyin (the module is ASCII)
DEFAULT_CATEGORIES ==
  << Category("reading", "yuedu", "#3b82f6"),
     Category("learning", "xuexi", "#f97316"),
     Category("outfit", "changshi", "#a855f7"),
     Category("emotion", "qingxu", "#ec4899") >>

palette == <<"#4ade80", "#fbbf24", "#f87171", "#818cf8", "#2dd4bf", "#f472b6", "#a78bfa">>

(***************************** inputs **************************************)
\* what the user types into the category dialog (maxLength 8)
NameInputs == { <<" ">>, <<" ", "A">>, <<"O","u","t","f","i","t">> }

\* what the user types into the diary textarea
TextInputs == { <<" ">>, <<"x","x","x"," ">> }

\* the random draws of spawnStar, as the values they produce
PositionDraws == { <<35, -2, 10>> }
SizeDraws == { 14 }

\* screen points a drag-move reports (px): midway between the first two
\* anchors, 160 px right of the first anchor, on the fifth anchor
DragPoints == { <<64, 344>>, <<224, 300>>, <<64, 652>> }

(***************************** state ***************************************)
VARIABLES
  entries, stars, categories,        \* the three persisted lists
  storage,                           \* localStorage
  isWriting, inputText, manualFragments,
  loading, request,                  \* request: what the pending call closed over
  pendingFragments,
  dragHoverCategory, dragging,       \* dragging: id of the card being dragged
  hoveredStarId, activeCategory, showDetailPanel,
  isAddingCategory, newCatName,
  idSeq, now,                        \* Math.random ids drawn, Date.now()
  clock, shaderReady, nebulaDim, cosmosDim,
  nebulaData,                        \* the four buffers of the particle field
  starPositions                      \* the background-star buffer (older Nebula)

dataVars == <<entries, stars, categories, storage>>
writeVars == <<isWriting, inputText, manualFragments, loading, request>>
dragVars == <<dragHoverCategory, dragging>>
focusVars == <<hoveredStarId, activeCategory, showDetailPanel>>
dialogVars == <<isAddingCategory, newCatName>>
drawVars == <<idSeq, now>>
frameVars == <<clock, shaderReady, nebulaDim, cosmosDim, nebulaData, starPositions>>

vars == <<dataVars, writeVars, pendingFragments, dragVars, focusVars, dialogVars,
          drawVars, frameVars>>

NoRequest == [text |-> <<>>, categories |-> <<>>, manualFragments |-> <<>>]

(***************************** particle field ******************************)
whiteColor == "#ffffff"

\* i % n of JavaScript: <<>> stands for NaN
JsMod(i, n) == IF n = 0 THEN <<>> ELSE <<i % n>>

\* arr[k] of JavaScript, k a number or NaN
ArrayAt(arr, k) ==
  IF k = <<>> \/ k[1] >= Len(arr) THEN UNDEFINED ELSE arr[k[1] + 1]

\* the fallback without effect
OrElseNone(v, fallback) == v

\* v || fallback, v an object or undefined
OrElse(v, fallback) == IF v = UNDEFINED THEN fallback ELSE v

\* what the random draws make of particle i: a particle of the disc, or a
\* particle of a trajectory on its bright (maskValue > 0.15) or dark segment
ParticleRole(i) == <<"disc", "dark", "bright">>[(i % 3) + 1]

\* the argument of finalColor.copy for particle i
finalColor(catColors, i) ==
  IF ParticleRole(i) = "bright" THEN whiteColor
  ELSE OrElse(ArrayAt(catColors, JsMod(i, Len(catColors))), whiteColor)

\* the callback of the nebulaData useMemo: four new arrays.  An array is
\* named by the length of the category list it was made for: the list only
\* grows while App is mounted, so no two allocations of one mount share a
\* name.  rgb is the colour of each particle before its brightness, failed
\* whether a finalColor.copy(undefined) threw
generateField(cats) ==
  LET catColors == [k \in 1..Len(cats) |-> cats[k].color]
      rgb == [k \in 1..MaxParticles |-> finalColor(catColors, k - 1)]
      gen == Len(cats)
  IN [positions |-> gen, colors |-> gen, flickerOffsets |-> gen, sizes |-> gen,
      rgb |-> rgb, failed |-> \E k \in 1..MaxParticles : rgb[k] = UNDEFINED]

\* a memo that writes new colours into the buffers it has
nebulaMemoColors(prev, cats, nextCats) ==
  IF nextCats # cats
  THEN [prev EXCEPT !.colors = generateField(nextCats).colors,
                    !.rgb = generateField(nextCats).rgb]
  ELSE prev

\* useMemo(..., [categories]) on a render after the first
nebulaMemo(prev, cats, nextCats) ==
  IF nextCats # cats THEN generateField(nextCats) ELSE prev

(***************************** background stars ****************************)
\* CosmosBackground of the older Nebula (src/unnamed/part_001) keeps a buffer
\* of background-star positions; the later Nebula (src/unnamed/part_002) has
\* none.  The buffer is named by the dependency values it was made for.
generateStarPositions(deps) == [madeFor |-> deps]

\* the memo with the category list as its dependency
starPositionsMemoCategories(prev, cats, nextCats) ==
  IF nextCats # cats THEN generateStarPositions(<<Len(nextCats)>>) ELSE prev

\* useMemo(..., []) on a render after the first
starPositionsMemo(prev, cats, nextCats) == prev

(***************************** persistence *********************************)
\* a localStorage key: <<>> when absent, <<list>> when set
Absent == <<>>

\* saved ? JSON.parse(saved) : fallback
Load(saved, fallback) == IF saved # Absent THEN saved[1] ELSE fallback

\* the effects without the writer of stardust_stars
PersistNoStars(e, s, c) ==
  [stardust_entries |-> <<e>>, stardust_stars |-> Absent, stardust_categories |-> <<c>>]

\* the three useEffect writers
Persist(e, s, c) ==
  [stardust_entries |-> <<e>>, stardust_stars |-> <<s>>, stardust_categories |-> <<c>>]

EmptyStorage ==
  [stardust_entries |-> Absent, stardust_stars |-> Absent, stardust_categories |-> Absent]

\* App mounted on the given localStorage, after its first effects have run
Mounted(ls) ==
  /\ entries = Load(ls.stardust_entries, <<>>)
  /\ stars = Load(ls.stardust_stars, <<>>)
  /\ categories = Load(ls.stardust_categories, DEFAULT_CATEGORIES)
  /\ storage = Persist(entries, stars, categories)
  /\ isWriting = FALSE /\ inputText = <<>> /\ manualFragments = <<>>
  /\ loading = FALSE /\ request = NoRequest
  /\ pendingFragments = <<>>
  /\ dragHoverCategory = NULL /\ dragging = NoId
  /\ hoveredStarId = NoId
  /\ activeCategory = NULL /\ showDetailPanel = FALSE
  /\ isAddingCategory = FALSE /\ newCatName = <<>>
  /\ clock = 0 /\ shaderReady = FALSE /\ nebulaDim = One /\ cosmosDim = One
  /\ nebulaData = generateField(categories)
  /\ starPositions = generateStarPositions(<<>>)

Init == Mounted(EmptyStorage) /\ idSeq = 0 /\ now = 0

(***************************** store operations ****************************)
\* pointer events reach the canvas, the rail and the pending cards
MainUI == ~loading /\ ~isAddingCategory /\ ~isWriting
Idle == MainUI /\ dragging = NoId

Find(list, id) == SelectSeq(list, LAMBDA x : x.id = id)

\* a lookup that always takes categories[0]
categoryInfoFirst(cats, categoryId) == cats[1]

\* categories.find(c => c.id === categoryId) || categories[0]
categoryInfo(cats, categoryId) ==
  IF Find(cats, categoryId) # <<>> THEN Find(cats, categoryId)[1] ELSE cats[1]

\* spawnStar that also moves the stars of the same entry to the new category
spawnStarRecategorize(starList, cats, content, categoryId, entryId, id, position, size) ==
  Append([i \in 1..Len(starList) |->
            IF starList[i].entryId = entryId
            THEN [starList[i] EXCEPT !.category = categoryId]
            ELSE starList[i]],
         [id |-> id, entryId |-> entryId, position |-> position,
          color |-> categoryInfo(cats, categoryId).color,
          content |-> content, category |-> categoryId, size |-> size])

\* spawnStar with the new star put first: setStars(prev => [newStar, ...prev])
spawnStarFirst(starList, cats, content, categoryId, entryId, id, position, size) ==
  <<[id |-> id, entryId |-> entryId, position |-> position,
     color |-> categoryInfo(cats, categoryId).color,
     content |-> content, category |-> categoryId, size |-> size]>> \o starList

\* the star list after spawnStar(content, categoryId, entryId)
spawnStar(starList, cats, content, categoryId, entryId, id, position, size) ==
  Append(starList,
         [id |-> id, entryId |-> entryId, position |-> position,
          color |-> categoryInfo(cats, categoryId).color,
          content |-> content, category |-> categoryId, size |-> size])

\* removal by prev.splice(prev.findIndex(x => x.id === id), 1): index -1
\* removes the last element
WithoutIdSplice(list, id) ==
  IF \E i \in 1..Len(list) : list[i].id = id
  THEN SelectSeq(list, LAMBDA x : x.id # id)
  ELSE SubSeq(list, 1, Len(list) - 1)

\* a filter that keeps everything
WithoutIdKeep(list, id) == list

\* prev.filter(s => s.id !== starId)
WithoutId(list, id) == SelectSeq(list, LAMBDA x : x.id # id)

\* deleteStar without its second line
deleteStarHoverKeep(hovered, starId) == hovered

\* deleteStar with the comparison of its second line inverted
deleteStarHoverOther(hovered, starId) == IF hovered = starId THEN hovered ELSE NoId

\* deleteStar(starId): the star list and the hover state afterwards
deleteStarHover(hovered, starId) == IF hovered = starId THEN NoId ELSE hovered

deleteStar(starId) ==
  /\ stars' = WithoutId(stars, starId)
  /\ hoveredStarId' = deleteStarHover(hoveredStarId, starId)
  /\ storage' = Persist(entries, stars', categories)
  /\ UNCHANGED <<entries, categories, activeCategory, showDetailPanel>>

\* handleFragmentDrop as in the older revision (src/App.tsx:1173): the star
\* takes the fragment's suggested category
handleFragmentDropSuggested(fragId, category, entryId, position, size) ==
  IF Find(pendingFragments, fragId) # <<>>
  THEN /\ stars' = spawnStar(stars, categories, Find(pendingFragments, fragId)[1].text,
                             Find(pendingFragments, fragId)[1].category, entryId,
                             idSeq + 1, position, size)
       /\ idSeq' = idSeq + 1
       /\ pendingFragments' = WithoutId(pendingFragments, fragId)
       /\ storage' = Persist(entries, stars', categories)
       /\ UNCHANGED <<entries, categories, now>>
  ELSE UNCHANGED <<dataVars, pendingFragments, drawVars>>

\* handleFragmentDrop without its setPendingFragments line: the promoted
\* fragment stays in the pending list
handleFragmentDropKeep(fragId, category, entryId, position, size) ==
  IF Find(pendingFragments, fragId) # <<>>
  THEN /\ stars' = spawnStar(stars, categories, Find(pendingFragments, fragId)[1].text,
                             category, entryId, idSeq + 1, position, size)
       /\ idSeq' = idSeq + 1
       /\ storage' = Persist(entries, stars', categories)
       /\ UNCHANGED <<entries, categories, now, pendingFragments>>
  ELSE UNCHANGED <<dataVars, pendingFragments, drawVars>>

\* handleFragmentDrop(fragId, category, entryId); id, position, size are the
\* random draws of spawnStar
handleFragmentDrop(fragId, category, entryId, position, size) ==
  IF Find(pendingFragments, fragId) # <<>>
  THEN /\ stars' = spawnStar(stars, categories, Find(pendingFragments, fragId)[1].text,
                             category, entryId, idSeq + 1, position, size)
       /\ idSeq' = idSeq + 1
       /\ pendingFragments' = WithoutId(pendingFragments, fragId)
       /\ storage' = Persist(entries, stars', categories)
       /\ UNCHANGED <<entries, categories, now>>
  ELSE UNCHANGED <<dataVars, pendingFragments, drawVars>>

\* discardPendingFragment(fragId)
discardPendingFragment(fragId) ==
  pendingFragments' = WithoutId(pendingFragments, fragId)

(***************************** drag to category ****************************)
DragThreshold == 160
RailCenterX == 64
RailTop == 300
RailPitch == 88

\* categoryRefs.current: one key per distinct id, in order of first insertion
\* (Object.entries lists keys that spell an integer before the others: no id
\* made of NameInputs or DEFAULT_CATEGORIES is one); the element under a key
\* is the last rail item rendered with that id
AnchorKeys(cats) == Dedup([i \in 1..Len(cats) |-> cats[i].id])
AnchorIndex(cats, id) == CHOOSE i \in 1..Len(cats) :
  cats[i].id = id /\ \A j \in 1..Len(cats) : cats[j].id = id => j <= i

\* centre of getBoundingClientRect() of the i-th rail item
AnchorCenter(i) == <<RailCenterX, RailTop + (i - 1) * RailPitch>>

\* Math.hypot(dx, dy), squared
Hypot2(p, q) == (p[1] - q[1]) * (p[1] - q[1]) + (p[2] - q[2]) * (p[2] - q[2])

\* the forEach with dist <= minDistance: a later anchor at the same distance
\* wins, and an anchor at 160 px is in reach
RECURSIVE NearestScanLast(_, _, _)
NearestScanLast(cats, point, n) ==
  IF n = 0 THEN <<NULL, DragThreshold * DragThreshold>>
  ELSE LET prev == NearestScanLast(cats, point, n - 1)
           id == AnchorKeys(cats)[n]
           dist2 == Hypot2(point, AnchorCenter(AnchorIndex(cats, id)))
       IN IF dist2 <= prev[2] THEN <<id, dist2>> ELSE prev

\* the forEach of updateNearestCategory over the first n keys:
\* <<nearestCat, minDistance squared>>
RECURSIVE NearestScan(_, _, _)
NearestScan(cats, point, n) ==
  IF n = 0 THEN <<NULL, DragThreshold * DragThreshold>>
  ELSE LET prev == NearestScan(cats, point, n - 1)
           id == AnchorKeys(cats)[n]
           dist2 == Hypot2(point, AnchorCenter(AnchorIndex(cats, id)))
       IN IF dist2 < prev[2] THEN <<id, dist2>> ELSE prev

\* anchors registered under the category name: the drag target is a name
updateNearestCategoryName(cats, point) ==
  LET id == NearestScan(cats, point, Len(AnchorKeys(cats)))[1]
  IN IF id = NULL THEN NULL ELSE Find(cats, id)[1].name

\* the value updateNearestCategory(point) passes to setDragHoverCategory
updateNearestCategory(cats, point) ==
  NearestScan(cats, point, Len(AnchorKeys(cats)))[1]

DragStart(i) ==
  /\ Idle
  /\ i \in 1..Len(pendingFragments)
  /\ Len(stars) < MaxStars /\ idSeq < MaxIds
  /\ dragging' = pendingFragments[i].id
  /\ UNCHANGED <<dataVars, writeVars, pendingFragments, dragHoverCategory, focusVars,
                 dialogVars, drawVars, frameVars>>

\* onDrag
DragMove(point) ==
  /\ dragging # NoId
  /\ dragHoverCategory' = updateNearestCategory(categories, point)
  /\ UNCHANGED <<dataVars, writeVars, pendingFragments, dragging, focusVars,
                 dialogVars, drawVars, frameVars>>

\* onDragEnd without the test of dragHoverCategory: a release off every
\* anchor promotes into the suggested category
DragEndAlways(position, size) ==
  /\ dragging # NoId
  /\ LET frag == Find(pendingFragments, dragging)[1] IN
       handleFragmentDrop(frag.id,
                          IF dragHoverCategory # NULL THEN dragHoverCategory ELSE frag.category,
                          frag.entryId, position, size)
  /\ dragHoverCategory' = NULL
  /\ dragging' = NoId
  /\ UNCHANGED <<writeVars, focusVars, dialogVars, frameVars>>

\* onDragEnd without its last call: the target outlives the drag
DragEndKeepTarget(position, size) ==
  /\ dragging # NoId
  /\ LET frag == Find(pendingFragments, dragging)[1] IN
       IF dragHoverCategory # NULL
       THEN handleFragmentDrop(frag.id, dragHoverCategory, frag.entryId, position, size)
       ELSE UNCHANGED <<dataVars, pendingFragments, drawVars>>
  /\ dragging' = NoId
  /\ UNCHANGED <<dragHoverCategory, writeVars, focusVars, dialogVars, frameVars>>

\* onDragEnd of the card of the dragged fragment
DragEnd(position, size) ==
  /\ dragging # NoId
  /\ LET frag == Find(pendingFragments, dragging)[1] IN
       IF dragHoverCategory # NULL
       THEN handleFragmentDrop(frag.id, dragHoverCategory, frag.entryId, position, size)
       ELSE UNCHANGED <<dataVars, pendingFragments, drawVars>>
  /\ dragHoverCategory' = NULL
  /\ dragging' = NoId
  /\ UNCHANGED <<writeVars, focusVars, dialogVars, frameVars>>

Discard(i) ==
  /\ Idle
  /\ i \in 1..Len(pendingFragments)
  /\ discardPendingFragment(pendingFragments[i].id)
  /\ UNCHANGED <<dataVars, writeVars, dragVars, focusVars, dialogVars, drawVars, frameVars>>

(***************************** focus and hover *****************************)
\* a click that always selects
toggleCategorySet(active, catId) == catId

\* handleCategoryClick(catId): the next activeCategory
toggleCategory(active, catId) == IF active = catId THEN NULL ELSE catId

CategoryClick(i) ==
  /\ Idle
  /\ i \in 1..Len(categories)
  /\ LET catId == categories[i].id IN
       /\ activeCategory' = toggleCategory(activeCategory, catId)
       /\ showDetailPanel' = FALSE
  /\ UNCHANGED <<dataVars, writeVars, pendingFragments, dragVars, hoveredStarId,
                 dialogVars, drawVars, frameVars>>

\* the list button next to the active rail item
ToggleDetailPanel ==
  /\ Idle
  /\ \E i \in 1..Len(categories) : categories[i].id = activeCategory
  /\ showDetailPanel' = ~showDetailPanel
  /\ UNCHANGED <<dataVars, writeVars, pendingFragments, dragVars,
                 hoveredStarId, activeCategory, dialogVars, drawVars, frameVars>>

PanelOpen == showDetailPanel /\ activeCategory # NULL

CloseDetailPanel ==
  /\ Idle /\ PanelOpen
  /\ showDetailPanel' = FALSE
  /\ UNCHANGED <<dataVars, writeVars, pendingFragments, dragVars,
                 hoveredStarId, activeCategory, dialogVars, drawVars, frameVars>>

\* the history button (the history panel itself is not modelled)
HistoryButton ==
  /\ Idle
  /\ activeCategory' = NULL
  /\ showDetailPanel' = FALSE
  /\ UNCHANGED <<dataVars, writeVars, pendingFragments, dragVars, hoveredStarId,
                 dialogVars, drawVars, frameVars>>

\* onPointerMissed without its second call
PointerMissedKeepPanel ==
  /\ Idle
  /\ activeCategory' = NULL
  /\ UNCHANGED <<dataVars, writeVars, pendingFragments, dragVars, hoveredStarId,
                 showDetailPanel, dialogVars, drawVars, frameVars>>

\* Canvas onPointerMissed
PointerMissed ==
  /\ Idle
  /\ activeCategory' = NULL
  /\ showDetailPanel' = FALSE
  /\ UNCHANGED <<dataVars, writeVars, pendingFragments, dragVars,
                 hoveredStarId, dialogVars, drawVars, frameVars>>

\* onStarClick wired to the toggle of the rail
StarClickToggle(i) ==
  /\ Idle
  /\ i \in 1..Len(stars)
  /\ activeCategory' = toggleCategory(activeCategory, stars[i].category)
  /\ showDetailPanel' = FALSE
  /\ UNCHANGED <<dataVars, writeVars, pendingFragments, dragVars,
                 hoveredStarId, dialogVars, drawVars, frameVars>>

\* Nebula onStarClick
StarClick(i) ==
  /\ Idle
  /\ i \in 1..Len(stars)
  /\ activeCategory' = stars[i].category
  /\ showDetailPanel' = FALSE
  /\ UNCHANGED <<dataVars, writeVars, pendingFragments, dragVars,
                 hoveredStarId, dialogVars, drawVars, frameVars>>

\* stars.filter(s => s.category === activeCategory), [] without activeCategory
categoryFragments ==
  IF activeCategory = NULL THEN <<>>
  ELSE SelectSeq(stars, LAMBDA s : s.category = activeCategory)

\* onPointerOver that reports the first star of the list
PointerOverFirst(i) ==
  /\ Idle
  /\ i \in 1..Len(stars)
  /\ hoveredStarId' = stars[1].id
  /\ UNCHANGED <<dataVars, writeVars, pendingFragments, dragVars,
                 activeCategory, showDetailPanel, dialogVars, drawVars, frameVars>>

\* FragmentStar onPointerOver; detail panel card onMouseEnter
PointerOver(i) ==
  /\ Idle
  /\ i \in 1..Len(stars)
  /\ hoveredStarId' = stars[i].id
  /\ UNCHANGED <<dataVars, writeVars, pendingFragments, dragVars,
                 activeCategory, showDetailPanel, dialogVars, drawVars, frameVars>>

PanelMouseEnter(i) ==
  /\ Idle /\ PanelOpen
  /\ i \in 1..Len(categoryFragments)
  /\ hoveredStarId' = categoryFragments[i].id
  /\ UNCHANGED <<dataVars, writeVars, pendingFragments, dragVars,
                 activeCategory, showDetailPanel, dialogVars, drawVars, frameVars>>

\* FragmentStar onPointerOut; detail panel card onMouseLeave
PointerOut ==
  /\ Idle
  /\ stars # <<>>
  /\ hoveredStarId' = NoId
  /\ UNCHANGED <<dataVars, writeVars, pendingFragments, dragVars,
                 activeCategory, showDetailPanel, dialogVars, drawVars, frameVars>>

\* the trash button of a detail panel card
DeleteStar(i) ==
  /\ Idle /\ PanelOpen
  /\ i \in 1..Len(categoryFragments)
  /\ deleteStar(categoryFragments[i].id)
  /\ UNCHANGED <<writeVars, pendingFragments, dragVars, dialogVars, drawVars, frameVars>>

(***************************** classification ******************************)
\* what ai.models.generateContent does: it rejects, or it resolves to a response
\* whose text is absent or blank, is no JSON, is the JSON null, is a JSON value
\* with no categoryId (a number, a string, an object without the key), or is an
\* object with a categoryId
Outcome(kind, categoryId) == [kind |-> kind, categoryId |-> categoryId]

\* category ids the service answers with
ResponseIds == {"learning", "zzz"}

Outcomes ==
  { Outcome(k, UNDEFINED) : k \in {"rejects", "no_text", "bad_json", "json_null", "no_key"} }
  \cup { Outcome("object", id) : id \in ResponseIds }

Resolved(v) == [status |-> "resolved", value |-> v]
Rejected == [status |-> "rejected", value |-> UNDEFINED]
Thrown == [status |-> "thrown", value |-> UNDEFINED]

\* currentCategories[0].id: a TypeError on the empty list
FirstCategoryId(cats) == IF cats # <<>> THEN Resolved(cats[1].id) ELSE Thrown

\* the try block without the validation of the returned id
categorizeTryUnchecked(outcome, cats) ==
  IF outcome.kind \in {"rejects", "bad_json", "json_null"} THEN Thrown
  ELSE Resolved(outcome.categoryId)

\* the try block of categorizeEntry
categorizeTry(outcome, cats) ==
  IF outcome.kind \in {"rejects", "bad_json", "json_null"} THEN Thrown
  ELSE IF Find(cats, outcome.categoryId) # <<>> THEN Resolved(outcome.categoryId)
  ELSE FirstCategoryId(cats)

\* categorizeEntry(text, currentCategories): how the returned promise settles
categorizeEntry(outcome, cats) ==
  IF categorizeTry(outcome, cats) # Thrown THEN categorizeTry(outcome, cats)
  ELSE IF FirstCategoryId(cats) # Thrown THEN FirstCategoryId(cats)
  ELSE Rejected

(***************************** writing flow ********************************)
OpenWriting ==
  /\ Idle
  /\ now < MaxEntries
  /\ isWriting' = TRUE
  /\ UNCHANGED <<dataVars, inputText, manualFragments, loading, request, pendingFragments,
                 dragVars, focusVars, dialogVars, drawVars, frameVars>>

\* textarea onChange (keyboard: it also reaches the focused textarea under
\* the loading overlay)
SetInputText(t) ==
  /\ isWriting
  /\ inputText' = t
  /\ UNCHANGED <<dataVars, isWriting, manualFragments, loading, request, pendingFragments,
                 dragVars, focusVars, dialogVars, drawVars, frameVars>>

\* the setManualFragments updater of handleTextSelection
toggleFragment(prev, selection) ==
  IF selection \in Range(prev)
  THEN SelectSeq(prev, LAMBDA f : f # selection)
  ELSE Append(prev, selection)

\* handleTextSelection with the textarea selection [a, b)
TextSelection(a, b) ==
  /\ isWriting /\ ~loading
  /\ a <= b /\ b <= Len(inputText)
  /\ LET selection == trim(substring(inputText, a, b)) IN
       /\ manualFragments' =
            IF Len(selection) > 1 THEN toggleFragment(manualFragments, Str(selection))
            ELSE manualFragments
       /\ Len(manualFragments') <= MaxFrags
  /\ UNCHANGED <<dataVars, isWriting, inputText, loading, request, pendingFragments,
                 dragVars, focusVars, dialogVars, drawVars, frameVars>>

\* removeManualFragment(frag), from a click on a highlighted span
RemoveManualFragment(i) ==
  /\ isWriting /\ ~loading
  /\ i \in 1..Len(manualFragments)
  /\ \E a \in 0..Len(inputText), b \in 0..Len(inputText) :
        a <= b /\ Str(substring(inputText, a, b)) = manualFragments[i]
  /\ manualFragments' = SelectSeq(manualFragments, LAMBDA f : f # manualFragments[i])
  /\ UNCHANGED <<dataVars, isWriting, inputText, loading, request, pendingFragments,
                 dragVars, focusVars, dialogVars, drawVars, frameVars>>

AbandonWriting ==
  /\ isWriting /\ ~loading
  /\ isWriting' = FALSE
  /\ manualFragments' = <<>>
  /\ UNCHANGED <<dataVars, inputText, loading, request, pendingFragments,
                 dragVars, focusVars, dialogVars, drawVars, frameVars>>

\* a submit button that is disabled on blank text only
RealizeStardustWhileLoading ==
  /\ isWriting
  /\ trim(inputText) # <<>>
  /\ now < MaxEntries
  /\ Len(pendingFragments) + Len(Dedup(manualFragments)) <= MaxPending
  /\ idSeq + Len(Dedup(manualFragments)) <= MaxIds
  /\ loading' = TRUE
  /\ request' = [text |-> inputText, categories |-> categories,
                 manualFragments |-> manualFragments]
  /\ UNCHANGED <<dataVars, isWriting, inputText, manualFragments, pendingFragments,
                 dragVars, focusVars, dialogVars, drawVars, frameVars>>

\* handleRealizeStardust up to its await (the submit button is disabled
\* while loading or while the text is blank)
RealizeStardust ==
  /\ isWriting /\ ~loading
  /\ trim(inputText) # <<>>
  /\ now < MaxEntries
  /\ Len(pendingFragments) + Len(Dedup(manualFragments)) <= MaxPending
  /\ idSeq + Len(Dedup(manualFragments)) <= MaxIds
  /\ loading' = TRUE
  /\ request' = [text |-> inputText, categories |-> categories,
                 manualFragments |-> manualFragments]
  /\ UNCHANGED <<dataVars, isWriting, inputText, manualFragments, pendingFragments,
                 dragVars, focusVars, dialogVars, drawVars, frameVars>>

\* the entry and the pending fragments handleRealizeStardust builds
newEntry(categoryId, finalFragments, time) ==
  [id |-> time, text |-> Str(request.text), timestamp |-> time,
   category |-> categoryId, fragments |-> finalFragments]

newFragments(categoryId, finalFragments, entryId, firstId) ==
  [i \in 1..Len(finalFragments) |->
     [id |-> firstId + i - 1, text |-> finalFragments[i],
      category |-> categoryId, entryId |-> entryId]]

\* handleRealizeStardust from the await on: the call settles
Settle(outcome) ==
  /\ loading
  /\ LET r == categorizeEntry(outcome, request.categories)
         finalFragments == Dedup(request.manualFragments)
     IN IF r.status = "resolved"
        THEN /\ now' = now + 1
             /\ entries' = <<newEntry(r.value, finalFragments, now')>> \o entries
             /\ pendingFragments' =
                  pendingFragments \o newFragments(r.value, finalFragments, now', idSeq + 1)
             /\ idSeq' = idSeq + Len(finalFragments)
             /\ storage' = Persist(entries', stars, categories)
             /\ isWriting' = FALSE /\ inputText' = <<>> /\ manualFragments' = <<>>
             /\ UNCHANGED <<stars, categories>>
        ELSE UNCHANGED <<dataVars, isWriting, inputText, manualFragments,
                         pendingFragments, drawVars>>
  /\ loading' = FALSE
  /\ request' = NoRequest
  /\ UNCHANGED <<dragVars, focusVars, dialogVars, frameVars>>

(***************************** category dialog *****************************)
OpenCategoryDialog ==
  /\ Idle
  /\ isAddingCategory' = TRUE
  /\ UNCHANGED <<dataVars, writeVars, pendingFragments, dragVars, focusVars, newCatName,
                 drawVars, frameVars>>

\* input onChange
SetNewCatName(n) ==
  /\ isAddingCategory
  /\ newCatName' = n
  /\ UNCHANGED <<dataVars, writeVars, pendingFragments, dragVars, focusVars,
                 isAddingCategory, drawVars, frameVars>>

CancelCategoryDialog ==
  /\ isAddingCategory
  /\ isAddingCategory' = FALSE
  /\ UNCHANGED <<dataVars, writeVars, pendingFragments, dragVars, focusVars, newCatName,
                 drawVars, frameVars>>

\* newCatName.toLowerCase().replace(/\s+/g, '_')
categoryIdOf(name) == Str(ReplaceSpaceRuns(toLowerCase(name)))

\* the CategoryInfo handleCreateCategory builds; draw is
\* Math.floor(Math.random() * palette.length) + 1
newCat(name, draw) == Category(categoryIdOf(name), Str(trim(name)), palette[draw])

\* handleCreateCategory (the button, or Enter in the input)
CreateCategory(draw) ==
  /\ isAddingCategory
  /\ IF trim(newCatName) = <<>>
     THEN UNCHANGED <<dataVars, dialogVars, cosmosDim, nebulaData, starPositions>>
     ELSE /\ Len(categories) < MaxCats
          /\ categories' = Append(categories, newCat(newCatName, draw))
          /\ storage' = Persist(entries, stars, categories')
          /\ newCatName' = <<>>
          /\ isAddingCategory' = FALSE
          \* cosmosShader is rebuilt with uDimFactor 1.0
          /\ cosmosDim' = One
          /\ nebulaData' = nebulaMemo(nebulaData, categories, categories')
          /\ starPositions' = starPositionsMemo(starPositions, categories, categories')
          /\ UNCHANGED <<entries, stars>>
  /\ UNCHANGED <<writeVars, pendingFragments, dragVars, focusVars, drawVars,
                 clock, shaderReady, nebulaDim>>

(***************************** frames **************************************)
DimLow == 2000
LerpPercent == 5

\* the truth value of a string or null
Truthy(v) == v # NULL /\ v # ""

\* a target that also drops while a star is hovered
dimFactorHover ==
  IF Truthy(activeCategory) \/ hoveredStarId # NoId THEN DimLow ELSE One

\* const dimFactor = activeCategory ? 0.2 : 1.0
dimFactor == IF Truthy(activeCategory) THEN DimLow ELSE One

\* the uniform set to its target at once
lerpSnap(x, y) == y

\* THREE.MathUtils.lerp(x, y, 0.05) = (1 - t) * x + t * y
lerp(x, y) == ((100 - LerpPercent) * x + LerpPercent * y) \div 100

\* a frame that also ends the hover it has drawn
FrameTickHoverOut ==
  /\ clock < MaxFrames
  /\ clock' = clock + 1
  /\ cosmosDim' = lerp(cosmosDim, dimFactor)
  /\ nebulaDim' = IF shaderReady THEN lerp(nebulaDim, dimFactor) ELSE nebulaDim
  /\ shaderReady' = TRUE
  /\ hoveredStarId' = NoId
  /\ UNCHANGED <<dataVars, writeVars, pendingFragments, dragVars, activeCategory,
                 showDetailPanel, dialogVars, drawVars, nebulaData, starPositions>>

\* frames that stop while the loading overlay is shown
FrameTickIdle ==
  /\ clock < MaxFrames /\ ~loading
  /\ clock' = clock + 1
  /\ cosmosDim' = lerp(cosmosDim, dimFactor)
  /\ nebulaDim' = IF shaderReady THEN lerp(nebulaDim, dimFactor) ELSE nebulaDim
  /\ shaderReady' = TRUE
  /\ UNCHANGED <<dataVars, writeVars, pendingFragments, dragVars, focusVars, dialogVars,
                 drawVars, nebulaData, starPositions>>

\* one animation frame: the useFrame callbacks, then the render, which
\* compiles the points material on its first pass (onBeforeCompile)
FrameTick ==
  /\ clock < MaxFrames
  /\ clock' = clock + 1
  /\ cosmosDim' = lerp(cosmosDim, dimFactor)
  /\ nebulaDim' = IF shaderReady THEN lerp(nebulaDim, dimFactor) ELSE nebulaDim
  /\ shaderReady' = TRUE
  /\ UNCHANGED <<dataVars, writeVars, pendingFragments, dragVars, focusVars, dialogVars,
                 drawVars, nebulaData, starPositions>>

(***************************** reload **************************************)
\* the page is reloaded: App is constructed again on the stored lists
Reload ==
  /\ entries' = Load(storage.stardust_entries, <<>>)
  /\ stars' = Load(storage.stardust_stars, <<>>)
  /\ categories' = Load(storage.stardust_categories, DEFAULT_CATEGORIES)
  /\ storage' = Persist(entries', stars', categories')
  /\ isWriting' = FALSE /\ inputText' = <<>> /\ manualFragments' = <<>>
  /\ loading' = FALSE /\ request' = NoRequest
  /\ pendingFragments' = <<>>
  /\ dragHoverCategory' = NULL /\ dragging' = NoId
  /\ hoveredStarId' = NoId
  /\ activeCategory' = NULL /\ showDetailPanel' = FALSE
  /\ isAddingCategory' = FALSE /\ newCatName' = <<>>
  /\ shaderReady' = FALSE /\ nebulaDim' = One /\ cosmosDim' = One
  /\ nebulaData' = generateField(categories')
  /\ starPositions' = generateStarPositions(<<>>)
  /\ clock' = 0
  /\ UNCHANGED drawVars

(***************************** specification *******************************)
Next ==
  \/ \E i \in 1..MaxCats : CategoryClick(i)
  \/ ToggleDetailPanel
  \/ CloseDetailPanel
  \/ HistoryButton
  \/ PointerMissed
  \/ \E i \in 1..MaxStars : StarClick(i)
  \/ \E i \in 1..MaxStars : PointerOver(i)
  \/ \E i \in 1..MaxStars : PanelMouseEnter(i)
  \/ PointerOut
  \/ \E i \in 1..MaxStars : DeleteStar(i)
  \/ \E i \in 1..MaxPending : DragStart(i)
  \/ \E point \in DragPoints : DragMove(point)
  \/ \E position \in PositionDraws, size \in SizeDraws : DragEnd(position, size)
  \/ \E i \in 1..MaxPending : Discard(i)
  \/ OpenWriting
  \/ \E t \in TextInputs : SetInputText(t)
  \/ \E a \in 0..4, b \in 0..4 : TextSelection(a, b)
  \/ \E i \in 1..MaxFrags : RemoveManualFragment(i)
  \/ AbandonWriting
  \/ RealizeStardust
  \/ \E outcome \in Outcomes : Settle(outcome)
  \/ OpenCategoryDialog
  \/ \E n \in NameInputs : SetNewCatName(n)
  \/ CancelCategoryDialog
  \/ \E draw \in 1..MaxPaletteDraw : CreateCategory(draw)
  \/ FrameTick
  \/ Reload

Spec == Init /\ [][Next]_vars

(***************************** the writing flow on any stored list *********)
\* category lists localStorage may hold when App is constructed
StoredCategoryLists ==
  { <<>>, DEFAULT_CATEGORIES, <<DEFAULT_CATEGORIES[2]>>,
    <<DEFAULT_CATEGORIES[3], DEFAULT_CATEGORIES[2]>>,
    Append(DEFAULT_CATEGORIES, newCat(<<" ", "A">>, 1)) }

InitStored ==
  /\ \E c \in StoredCategoryLists :
       Mounted([EmptyStorage EXCEPT !.stardust_categories = <<c>>])
  /\ idSeq = 0 /\ now = 0

NextWriting ==
  \/ OpenWriting
  \/ \E t \in TextInputs : SetInputText(t)
  \/ \E a \in 0..4, b \in 0..4 : TextSelection(a, b)
  \/ \E i \in 1..MaxFrags : RemoveManualFragment(i)
  \/ AbandonWriting
  \/ RealizeStardust
  \/ \E outcome \in Outcomes : Settle(outcome)

SpecStored == InitStored /\ [][NextWriting]_vars

(***************************** the writing flow on a stored diary **********)
\* the entry an earlier visit left in localStorage, written when the counter
\* now stood at 0
EarlierEntries ==
  << [id |-> 0, text |-> "ab", timestamp |-> 0, category |-> "reading",
      fragments |-> <<>>] >>

InitDiary ==
  /\ Mounted([EmptyStorage EXCEPT !.stardust_entries = <<EarlierEntries>>])
  /\ idSeq = 0 /\ now = 0

NextDiary ==
  \/ NextWriting
  \/ \E i \in 1..MaxPending : DragStart(i)
  \/ \E point \in DragPoints : DragMove(point)
  \/ \E position \in PositionDraws, size \in SizeDraws : DragEnd(position, size)
  \/ \E i \in 1..MaxPending : Discard(i)
  \/ FrameTick

SpecDiary == InitDiary /\ [][NextDiary]_vars

(***************************** the store operations called directly ********)
\* deleteStar, handleFragmentDrop and discardPendingFragment invoked with any
\* id, present in the lists or not
CallDeleteStar(id) ==
  /\ Idle
  /\ deleteStar(id)
  /\ UNCHANGED <<writeVars, pendingFragments, dragVars, dialogVars, drawVars, frameVars>>

CallFragmentDrop(id, category, entryId, position, size) ==
  /\ Idle
  /\ Len(stars) < MaxStars /\ idSeq < MaxIds
  /\ handleFragmentDrop(id, category, entryId, position, size)
  /\ UNCHANGED <<writeVars, dragVars, focusVars, dialogVars, frameVars>>

CallDiscard(id) ==
  /\ Idle
  /\ discardPendingFragment(id)
  /\ UNCHANGED <<dataVars, writeVars, dragVars, focusVars, dialogVars, drawVars, frameVars>>

NextCalls ==
  \/ NextWriting
  \/ \E i \in 1..MaxStars : PointerOver(i)
  \/ PointerOut
  \/ \E id \in 1..MaxIds : CallDeleteStar(id)
  \/ \E id \in 1..MaxIds, i \in 1..MaxCats, entryId \in 0..MaxEntries,
        position \in PositionDraws, size \in SizeDraws :
        /\ i <= Len(categories)
        /\ CallFragmentDrop(id, categories[i].id, entryId, position, size)
  \/ \E id \in 1..MaxIds : CallDiscard(id)

SpecCalls == Init /\ [][NextCalls]_vars

(***************************** constellation lines *************************)
RECURSIVE Flatten(_)
Flatten(s) == IF s = <<>> THEN <<>> ELSE Head(s) \o Flatten(Tail(s))

\* the null geometry, for which ConstellationLines renders nothing, and a
\* BufferGeometry with its position attribute
NoLines == [drawn |-> FALSE, position |-> <<>>]
BufferGeometry(position) == [drawn |-> TRUE, position |-> position]

\* the lines drawn through all the stars, whatever their category
lineGeometryAll(starList, active) ==
  IF ~Truthy(active) \/ Len(starList) < 2 THEN NoLines
  ELSE BufferGeometry(Flatten([i \in 1..(Len(starList) - 1) |->
                  starList[i].position \o starList[i + 1].position]))

\* the lineGeometry useMemo of ConstellationLines: null, or the vertex
\* coordinates of the position attribute, two vertices (six numbers) for
\* each segment
lineGeometry(starList, active) ==
  IF ~Truthy(active) THEN NoLines
  ELSE LET filteredStars == SelectSeq(starList, LAMBDA s : s.category = active)
       IN IF Len(filteredStars) < 2 THEN NoLines
          ELSE BufferGeometry(
                 Flatten([i \in 1..(Len(filteredStars) - 1) |->
                           filteredStars[i].position \o filteredStars[i + 1].position]))

(***************************** star rendering ******************************)
\* FragmentStar useFrame: the two flags handed to the star shader, from the
\* props Nebula gives the star
uIsHovered(star) == IF hoveredStarId = star.id THEN One ELSE 0
uIsSelected(star) == IF activeCategory = star.category THEN One ELSE 0

\* the scale branch of the vertex shader with the selection test first
vertexScaleSelectedFirst(hoverFlag, selectFlag) ==
  IF 2 * selectFlag > One THEN "selected"
  ELSE IF 2 * hoverFlag > One THEN "hover"
  ELSE "breathe"

\* starVertexShader: which multiplier is applied to the breathing scale
vertexScale(hoverFlag, selectFlag) ==
  IF 2 * hoverFlag > One THEN "hover"
  ELSE IF 2 * selectFlag > One THEN "selected"
  ELSE "breathe"

starScale(star) == vertexScale(uIsHovered(star), uIsSelected(star))

(***************************** the canvas on a stored star list ************)
MaxStoredStars == 4

StoredStar(id, category, color, position) ==
  [id |-> id, entryId |-> 1, position |-> position, color |-> color,
   content |-> <<"ab", "cd", "ef", "gh">>[id], category |-> category, size |-> 14]

\* what an earlier session left in localStorage: one entry and the four
\* stars made of its fragments, three of one category around one of another
StoredEntries ==
  << [id |-> 1, text |-> "ab cd ef gh", timestamp |-> 1, category |-> "reading",
      fragments |-> <<"ab", "cd", "ef", "gh">>] >>

StoredStars ==
  << StoredStar(1, "reading", "#3b82f6", <<10, 0, 0>>),
     StoredStar(2, "learning", "#f97316", <<20, 1, 5>>),
     StoredStar(3, "reading", "#3b82f6", <<-30, 2, 7>>),
     StoredStar(4, "reading", "#3b82f6", <<0, -3, 40>>) >>

InitCanvas ==
  /\ Mounted([stardust_entries |-> <<StoredEntries>>,
              stardust_stars |-> <<StoredStars>>,
              stardust_categories |-> <<DEFAULT_CATEGORIES>>])
  /\ idSeq = MaxStoredStars /\ now = 1

\* the canvas, the rail and the detail panel, and deleteStar called with the
\* id of any star
NextCanvas ==
  \/ \E i \in 1..MaxCats : CategoryClick(i)
  \/ ToggleDetailPanel
  \/ CloseDetailPanel
  \/ PointerMissed
  \/ \E i \in 1..MaxStoredStars : StarClick(i)
  \/ \E i \in 1..MaxStoredStars : PointerOver(i)
  \/ \E i \in 1..MaxStoredStars : PanelMouseEnter(i)
  \/ PointerOut
  \/ \E i \in 1..MaxStoredStars : DeleteStar(i)
  \/ \E id \in 1..MaxStoredStars : CallDeleteStar(id)
  \/ FrameTick

SpecCanvas == InitCanvas /\ [][NextCanvas]_vars

(***************************** properties **********************************)
Ids(list) == {list[i].id : i \in 1..Len(list)}
RemoveAt(list, k) == SubSeq(list, 1, k - 1) \o SubSeq(list, k + 1, Len(list))
Last(list) == list[Len(list)]

\* a drag-end that promotes: some anchor was in reach at the last drag-move
PromoteStep(position, size) ==
  dragging # NoId /\ dragHoverCategory # NULL /\ DragEnd(position, size)

\* C1: a promotion appends exactly one star, last in the star list, with the
\* target category and the fragment text, and removes from the pending list
\* exactly one fragment, the one with the dropped id.
C1_Promote ==
  [][\A position \in PositionDraws, size \in SizeDraws :
       PromoteStep(position, size) =>
         /\ Len(stars') = Len(stars) + 1
         /\ SubSeq(stars', 1, Len(stars)) = stars
         /\ Last(stars').category = dragHoverCategory
         /\ Last(stars').content = Find(pendingFragments, dragging)[1].text
         /\ Len(pendingFragments') = Len(pendingFragments) - 1
         /\ \E k \in 1..Len(pendingFragments) :
               /\ pendingFragments[k].id = dragging
               /\ pendingFragments' = RemoveAt(pendingFragments, k)
         /\ dragging \notin Ids(pendingFragments')]_vars

\* two promotions have happened: the second star stands after the first
C1_Witness ==
  /\ Len(stars) = 2 /\ pendingFragments = <<>>
  /\ stars[1].id < stars[2].id
  /\ stars[1].category # stars[2].category

\* C2: a drag-end with dragHoverCategory = null changes neither the pending
\* list nor the star list.
C2_DragCancel ==
  [][\A position \in PositionDraws, size \in SizeDraws :
       (dragHoverCategory = NULL /\ DragEnd(position, size)) =>
         UNCHANGED <<pendingFragments, stars>>]_vars

\* a fragment is being dragged off every anchor, after an earlier promotion
C2_Witness ==
  /\ dragging # NoId /\ dragHoverCategory = NULL
  /\ Len(stars) = 1 /\ Len(pendingFragments) = 1

\* C3: a submission with two distinct fragments appends two pending fragments
\* with the classified category and the new entry's id; a drop on the anchor
\* of another category makes one star of that category and leaves every
\* other pending fragment as it was.
C3_Scenario ==
  [][/\ \A outcome \in Outcomes :
          (Settle(outcome) /\ Len(Dedup(request.manualFragments)) = 2
             /\ entries' # entries) =>
            /\ Len(pendingFragments') = Len(pendingFragments) + 2
            /\ SubSeq(pendingFragments', 1, Len(pendingFragments)) = pendingFragments
            /\ \A k \in Len(pendingFragments) + 1 .. Len(pendingFragments') :
                  /\ pendingFragments'[k].category = entries'[1].category
                  /\ pendingFragments'[k].entryId = entries'[1].id
                  /\ pendingFragments'[k].text =
                       Dedup(request.manualFragments)[k - Len(pendingFragments)]
            /\ entries'[1].category =
                 categorizeEntry(outcome, request.categories).value
     /\ \A position \in PositionDraws, size \in SizeDraws :
          (PromoteStep(position, size)
             /\ dragHoverCategory # Find(pendingFragments, dragging)[1].category) =>
            /\ Len(stars') = Len(stars) + 1
            /\ Last(stars').category = dragHoverCategory
            /\ Last(stars').category # Find(pendingFragments, dragging)[1].category
            /\ pendingFragments' =
                 SelectSeq(pendingFragments, LAMBDA f : f.id # dragging)
            /\ \A k \in 1..Len(pendingFragments) :
                  pendingFragments[k].id # dragging =>
                    \E j \in 1..Len(pendingFragments') :
                      pendingFragments'[j] = pendingFragments[k]]_vars

\* x became a star of another category than the suggested one, y is pending
C3_Witness ==
  /\ Len(entries) = 1 /\ Len(entries[1].fragments) = 2
  /\ Len(stars) = 1 /\ Len(pendingFragments) = 1
  /\ stars[1].category # entries[1].category
  /\ pendingFragments[1].category = entries[1].category
  /\ pendingFragments[1].text # stars[1].content
  /\ stars[1].entryId = entries[1].id

\* C4: deleting the hovered star removes it and clears hoveredStarId in the
\* same step; deleting another star leaves hoveredStarId as it was.
C4_DeleteHover ==
  [][\A i \in 1..MaxStars :
       DeleteStar(i) =>
         /\ categoryFragments[i].id \notin Ids(stars')
         /\ categoryFragments[i].id = hoveredStarId => hoveredStarId' = NoId
         /\ categoryFragments[i].id # hoveredStarId => hoveredStarId' = hoveredStarId]_vars

\* a star was made and deleted, and nothing is hovered
C4_Witness ==
  /\ Len(entries) = 1
  /\ idSeq = Len(entries[1].fragments) + 1
  /\ stars = <<>> /\ hoveredStarId = NoId
  /\ PanelOpen

\* C5: a click on category c from activeCategory = none selects c, and a
\* click on the selected category clears the selection.
C5_Toggle ==
  [][\A i \in 1..MaxCats :
       CategoryClick(i) =>
         /\ activeCategory = NULL => activeCategory' = categories[i].id
         /\ activeCategory = categories[i].id => activeCategory' = NULL
         /\ toggleCategory(toggleCategory(NULL, categories[i].id), categories[i].id) = NULL]_vars

C5_Witness == activeCategory = "learning" /\ ~showDetailPanel

\* C6: a frame from uDimFactor = 1.0 with target 0.2 leaves the uniform
\* strictly between 0.2 and 1.0, 0.05 of the distance nearer the target.
C6_DimStep ==
  [][(FrameTick /\ dimFactor = DimLow) =>
       /\ cosmosDim = One =>
            /\ DimLow < cosmosDim' /\ cosmosDim' < One
            /\ (One - cosmosDim') * 100 = LerpPercent * (One - DimLow)
       /\ (shaderReady /\ nebulaDim = One) =>
            /\ DimLow < nebulaDim' /\ nebulaDim' < One
            /\ (One - nebulaDim') * 100 = LerpPercent * (One - DimLow)]_vars

C6_Witness == clock = 1 /\ activeCategory # NULL /\ cosmosDim = 9600

\* C7: deleteStar with an id that is not in the star list, and
\* handleFragmentDrop and discardPendingFragment with an id that is not in
\* the pending list, change neither list; after deleteStar(id) a second
\* deleteStar(id) changes nothing.
C7_MissingIdNoOp ==
  [][/\ \A id \in 1..MaxIds :
          (CallDeleteStar(id) /\ id \notin Ids(stars)) =>
            UNCHANGED <<stars, pendingFragments>>
     /\ \A id \in 1..MaxIds :
          (CallDiscard(id) /\ id \notin Ids(pendingFragments)) =>
            UNCHANGED <<stars, pendingFragments>>
     /\ \A id \in 1..MaxIds, i \in 1..MaxCats, entryId \in 0..MaxEntries,
           position \in PositionDraws, size \in SizeDraws :
          (/\ i <= Len(categories)
           /\ id \notin Ids(pendingFragments)
           /\ CallFragmentDrop(id, categories[i].id, entryId, position, size)) =>
            UNCHANGED <<stars, pendingFragments>>
     /\ \A id \in 1..MaxIds :
          CallDeleteStar(id) =>
            /\ WithoutId(stars', id) = stars'
            /\ deleteStarHover(hoveredStarId', id) = hoveredStarId']_vars

\* the one star made so far has been deleted: its id is in no list any more
C7_Witness ==
  /\ Len(entries) = 1 /\ Len(entries[1].fragments) = 2
  /\ idSeq = 3 /\ stars = <<>> /\ Len(pendingFragments) = 1
  /\ 3 \notin Ids(pendingFragments)

\* what C8 says of one call: it resolves, to a member of the list, which is
\* the returned id when that is known and the first id otherwise
Classified(outcome, cats) ==
  LET r == categorizeEntry(outcome, cats)
      known == outcome.kind = "object" /\ outcome.categoryId \in Ids(cats)
  IN /\ r.status = "resolved"
     /\ r.value \in Ids(cats)
     /\ known => r.value = outcome.categoryId
     /\ ~known => r.value = cats[1].id

C9_UniqueCategoryIds ==
  \A i \in 1..Len(categories), j \in 1..Len(categories) :
    i # j => categories[i].id # categories[j].id

\* C10: a step that adds to the star list is a promotion: it appends one
\* star, removes one pending fragment, and the star's content and entryId
\* are that fragment's text and entryId.
C10_OnlyPromotion ==
  [][(Len(stars') > Len(stars) \/ Ids(stars') \ Ids(stars) # {}) =>
       /\ Len(stars') = Len(stars) + 1
       /\ SubSeq(stars', 1, Len(stars)) = stars
       /\ \E position \in PositionDraws, size \in SizeDraws : PromoteStep(position, size)
       /\ \E k \in 1..Len(pendingFragments) :
             /\ pendingFragments' = RemoveAt(pendingFragments, k)
             /\ Last(stars').content = pendingFragments[k].text
             /\ Last(stars').entryId = pendingFragments[k].entryId]_vars

\* a star stands for a fragment of the entry, whose other fragment is pending
C10_Witness ==
  /\ Len(entries) = 1 /\ Len(stars) = 1 /\ Len(pendingFragments) = 1
  /\ stars[1].entryId = entries[1].id
  /\ stars[1].content \in Range(entries[1].fragments)
  /\ stars[1].category = entries[1].category

\* C11: a pending fragment that is promoted or discarded leaves the pending
\* list in that step, the step that takes it out adds at most one star, and
\* an id that enters the pending list was never drawn before (so an id that
\* left the list never returns to be promoted or discarded again); the ids
\* in the list are distinct.
C11_ConsumedOnce ==
  [][/\ \A i \in 1..MaxPending :
          Discard(i) =>
            /\ pendingFragments[i].id \notin Ids(pendingFragments')
            /\ stars' = stars
     /\ \A position \in PositionDraws, size \in SizeDraws :
          PromoteStep(position, size) =>
            /\ dragging \notin Ids(pendingFragments')
            /\ Len(stars') = Len(stars) + 1
     /\ Ids(pendingFragments) \ Ids(pendingFragments') # {} =>
          Len(stars') <= Len(stars) + 1
     /\ \A id \in Ids(pendingFragments') \ Ids(pendingFragments) :
          idSeq < id /\ id <= idSeq'
     /\ \A id \in Ids(pendingFragments') : id <= idSeq'
     /\ Cardinality(Ids(pendingFragments')) = Len(pendingFragments')]_vars

\* of the two fragments of the entry one was promoted and one discarded
C11_Witness ==
  /\ Len(entries) = 1 /\ Len(entries[1].fragments) = 2
  /\ Len(stars) = 1 /\ pendingFragments = <<>>
  /\ idSeq = 3 /\ dragging = NoId

\* C12: the colour of a new star is the colour of the category the code
\* looks up under the target id at the promotion (the first of the list with
\* that id), and no step, a category creation included, changes the colour
\* of a star that stays in the list.
C12_ColorSnapshot ==
  [][/\ \A position \in PositionDraws, size \in SizeDraws :
          PromoteStep(position, size) =>
            \E k \in 1..Len(categories) :
              /\ categories[k].id = dragHoverCategory
              /\ \A j \in 1..(k - 1) : categories[j].id # dragHoverCategory
              /\ Last(stars').color = categories[k].color
              /\ Last(stars').category = categories[k].id
     /\ \A i \in 1..Len(stars), j \in 1..Len(stars') :
          stars[i].id = stars'[j].id => stars'[j].color = stars[i].color
     /\ categories' # categories => stars' = stars]_vars

\* a star of the fifth category stands while a sixth is about to be created
C12_Witness ==
  /\ Len(categories) = 5 /\ Len(stars) = 1
  /\ stars[1].category = categories[5].id
  /\ stars[1].color = categories[5].color
  /\ isAddingCategory /\ trim(newCatName) # <<>>

\* C13: a step leaves every star that stays in the list with all its fields,
\* and it changes the star list only by appending one star with an id never
\* drawn before or by removing the stars of one id; star ids are distinct.
C13_StarsImmutable ==
  [][/\ \A i \in 1..Len(stars), j \in 1..Len(stars') :
          stars[i].id = stars'[j].id => stars'[j] = stars[i]
     /\ \/ stars' = stars
        \/ /\ Len(stars') = Len(stars) + 1
           /\ SubSeq(stars', 1, Len(stars)) = stars
           /\ Last(stars').id = idSeq + 1 /\ idSeq' = idSeq + 1
        \/ \E id \in Ids(stars) :
             stars' = SelectSeq(stars, LAMBDA s : s.id # id)
     /\ \A id \in Ids(stars') : id <= idSeq'
     /\ Cardinality(Ids(stars')) = Len(stars')]_vars

\* two stars were made, of different categories, and the first was deleted
C13_Witness ==
  /\ Len(entries) = 1 /\ idSeq = 4 /\ pendingFragments = <<>>
  /\ Len(stars) = 1 /\ stars[1].id = 4
  /\ stars[1].category = "reading"
  /\ activeCategory # NULL /\ activeCategory # "reading"

\* C14: after a click on a star activeCategory is that star's category,
\* whatever it was before (also when it already was that category); after a
\* click on empty space it is none.
C14_CanvasClicks ==
  [][/\ \A i \in 1..MaxStars :
          StarClick(i) =>
            /\ activeCategory' = stars[i].category
            /\ activeCategory' # NULL
     /\ PointerMissed => activeCategory' = NULL]_vars

\* the category of a star is selected with the detail panel open: a click on
\* that star finds its category already active
C14_Witness ==
  /\ Idle /\ Len(stars) = 2
  /\ activeCategory = stars[2].category /\ activeCategory # stars[1].category
  /\ showDetailPanel

\* the stars FragmentStar renders with isHovered = true
HoveredStars(starList, hovered) ==
  {i \in 1..Len(starList) : starList[i].id = hovered}

\* C15: after a pointer-enter on a star (on the canvas or on its card in the
\* detail panel) hoveredStarId is that star's id, after a pointer-leave it is
\* none, and after every step at most one star of the list is rendered as
\* hovered.
C15_Hover ==
  [][/\ \A i \in 1..MaxStars :
          PointerOver(i) =>
            hoveredStarId' = stars[i].id /\ HoveredStars(stars', hoveredStarId') = {i}
     /\ \A i \in 1..MaxStars :
          PanelMouseEnter(i) => hoveredStarId' = categoryFragments[i].id
     /\ PointerOut =>
          hoveredStarId' = NoId /\ HoveredStars(stars', hoveredStarId') = {}
     /\ Cardinality(HoveredStars(stars', hoveredStarId')) <= 1]_vars

\* the second of two stars is hovered
C15_Witness ==
  /\ Len(stars) = 2 /\ hoveredStarId = stars[2].id
  /\ HoveredStars(stars, hoveredStarId) = {2}

\* C16: in a step of the mounted App the four particle buffers are replaced,
\* all four together, when the category list changes, and all four are left
\* as they are by every step that leaves the category list as it is (star
\* creation and deletion, hover, selection, drag, frames).
C16_BuffersWholesale ==
  [][\/ Reload
     \/ /\ categories' # categories =>
             /\ nebulaData'.positions # nebulaData.positions
             /\ nebulaData'.colors # nebulaData.colors
             /\ nebulaData'.flickerOffsets # nebulaData.flickerOffsets
             /\ nebulaData'.sizes # nebulaData.sizes
             /\ nebulaData' = generateField(categories')
        /\ categories' = categories => nebulaData' = nebulaData
        /\ (stars' # stars \/ hoveredStarId' # hoveredStarId
              \/ activeCategory' # activeCategory \/ dragging' # dragging
              \/ dragHoverCategory' # dragHoverCategory \/ clock' # clock) =>
             nebulaData' = nebulaData]_vars

\* the buffers were made again for a fifth category, and a frame followed
\* with a star in the list
C16_Witness ==
  /\ Len(categories) = 5 /\ nebulaData.positions = 5 /\ nebulaData.sizes = 5
  /\ nebulaData.rgb[5] = categories[5].color
  /\ clock = 1 /\ stars # <<>>

\* C17: the field generated for an empty category list is generated without
\* an exception and every particle of it is white; for any list no particle
\* is left without a colour.
C17_EmptyListWhite ==
  /\ ~nebulaData.failed
  /\ \A k \in 1..MaxParticles : nebulaData.rgb[k] # UNDEFINED
  /\ categories = <<>> =>
       /\ nebulaData = generateField(<<>>)
       /\ \A k \in 1..MaxParticles : nebulaData.rgb[k] = whiteColor

\* App runs on a stored empty category list, its field generated
C17_Witness ==
  /\ categories = <<>> /\ storage.stardust_categories = <<(<<>>)>>
  /\ Len(nebulaData.rgb) = MaxParticles /\ nebulaData.positions = 0
  /\ nebulaData.rgb[2] = whiteColor
  /\ isWriting

\* C18: in every state (the effects of each mutation having run) each of the
\* three stored records is the whole list in memory; a restart loads exactly
\* the stored lists and starts with an empty pending list; an absent key
\* loads as the empty list, or as the default categories.
C18_PersistenceMirror ==
  /\ [](/\ storage.stardust_entries = <<entries>>
        /\ storage.stardust_stars = <<stars>>
        /\ storage.stardust_categories = <<categories>>)
  /\ [][Reload =>
          /\ entries' = storage.stardust_entries[1]
          /\ stars' = storage.stardust_stars[1]
          /\ categories' = storage.stardust_categories[1]
          /\ entries' = entries /\ stars' = stars /\ categories' = categories
          /\ storage' = storage
          /\ pendingFragments' = <<>>]_vars
  /\ [](/\ Load(EmptyStorage.stardust_entries, <<>>) = <<>>
        /\ Load(EmptyStorage.stardust_stars, <<>>) = <<>>
        /\ Load(EmptyStorage.stardust_categories, DEFAULT_CATEGORIES) = DEFAULT_CATEGORIES)

\* all three lists have been changed and stored, and a fragment is pending
\* that a restart would lose
C18_Witness ==
  /\ Len(entries) = 1 /\ Len(stars) = 1 /\ Len(categories) = 5
  /\ Len(pendingFragments) = 1
  /\ storage.stardust_stars = <<stars>>
  /\ storage.stardust_categories[1][5].id = "_a"

\* C19: in every state each star of the star list has the id of a category
\* of the category list as its category.
C19_StarCategoryExists ==
  \A i \in 1..Len(stars) :
    \E k \in 1..Len(categories) : categories[k].id = stars[i].category

\* stars of a default category and of a category created in the dialog
C19_Witness ==
  /\ Len(stars) = 2 /\ Len(categories) = 5
  /\ stars[1].category = categories[5].id
  /\ stars[2].category = categories[1].id

\* squared distances from the point to the anchors, in the order of the keys
KeyDist2(cats, point) ==
  LET keys == AnchorKeys(cats)
  IN [n \in 1..Len(keys) |-> Hypot2(point, AnchorCenter(AnchorIndex(cats, keys[n])))]

\* the keys whose anchor is strictly less than 160 px from the point
InReach(cats, point) ==
  LET d == KeyDist2(cats, point)
  IN {n \in 1..Len(d) : d[n] < DragThreshold * DragThreshold}

\* C20: a drag-move sets dragHoverCategory to the key of the anchor nearest
\* to the point among the anchors strictly less than 160 px away, the first
\* in iteration order among equally near ones, and to none when no anchor is
\* strictly less than 160 px away.
C20_NearestAnchor ==
  [][\A point \in DragPoints :
       (dragging # NoId /\ dragging' = dragging
          /\ dragHoverCategory' # dragHoverCategory /\ DragMove(point)) =>
         LET keys == AnchorKeys(categories)
             d == KeyDist2(categories, point)
             reach == {n \in 1..Len(d) : d[n] < DragThreshold * DragThreshold}
         IN /\ reach = {} => dragHoverCategory' = NULL
            /\ reach # {} =>
                 \E n \in reach :
                   /\ dragHoverCategory' = keys[n]
                   /\ \A m \in reach : d[n] <= d[m] /\ (d[n] = d[m] => n <= m)]_vars

\* the card is held midway between the first two anchors: the first is the
\* target
C20_Witness ==
  /\ dragging # NoId /\ dragHoverCategory = categories[1].id
  /\ KeyDist2(categories, <<64, 344>>)[1] = KeyDist2(categories, <<64, 344>>)[2]
  /\ InReach(categories, <<224, 300>>) = {}

\* C21 as stated: a step that regenerates the particle field because the
\* category list changed regenerates the background-star buffer as well.
C21_StarsRegenerated ==
  [][(categories' # categories /\ nebulaData' # nebulaData) =>
       starPositions' # starPositions]_vars

\* C21 amended: the background-star buffer is made once, when the component
\* mounts; a step that regenerates the particle field because the category
\* list changed leaves the background-star buffer as it is.
C21_StarsMadeOnce ==
  /\ [](starPositions = generateStarPositions(<<>>))
  /\ [][(categories' # categories) =>
          /\ nebulaData' # nebulaData
          /\ starPositions' = starPositions]_vars

\* the field was regenerated for a fifth category, the stars were not
C21_Witness ==
  /\ Len(categories) = 5 /\ nebulaData.positions = 5
  /\ starPositions.madeFor = <<>>
  /\ ~isAddingCategory

\* C22: the dim target is 0.2 in every state where activeCategory is set and
\* 1.0 in every state where it is none; a step that leaves activeCategory as
\* it is (hover, drag, star and pending-fragment changes) leaves the target
\* as it is, and a frame moves both uniforms toward that target.
C22_DimTarget ==
  /\ [](/\ activeCategory # NULL => dimFactor = DimLow
        /\ activeCategory = NULL => dimFactor = One)
  /\ [][/\ activeCategory' = activeCategory => dimFactor' = dimFactor
        /\ FrameTick =>
             LET target == IF activeCategory = NULL THEN One ELSE DimLow
             IN /\ cosmosDim' = lerp(cosmosDim, target)
                /\ shaderReady => nebulaDim' = lerp(nebulaDim, target)]_vars

\* a star is hovered and a fragment is dragged over an anchor with no
\* category selected: the target is 1.0
C22_Witness ==
  /\ activeCategory = NULL /\ hoveredStarId # NoId
  /\ dragging # NoId /\ dragHoverCategory # NULL
  /\ stars # <<>> /\ dimFactor = One

\* the places in the star list of the stars of one category, and the i-th of
\* them in star-list order
CategoryPlaces(starList, cat) ==
  {j \in 1..Len(starList) : starList[j].category = cat}
NthOfCategory(starList, cat, i) ==
  LET places == CategoryPlaces(starList, cat)
  IN starList[CHOOSE j \in places :
                Cardinality({m \in places : m <= j}) = i]

\* C23: no line is drawn when activeCategory is none or fewer than two stars
\* have that category; otherwise, with k stars of the category, the geometry
\* holds exactly k-1 segments and segment i joins the positions of the i-th and
\* the (i+1)-th star of the category in star-list order; a step that keeps
\* activeCategory and only inserts or deletes a star of another category
\* leaves the segments unchanged.
C23_Lines ==
  /\ [](LET geometry == lineGeometry(stars, activeCategory)
            k == Cardinality(CategoryPlaces(stars, activeCategory))
        IN IF activeCategory = NULL \/ k < 2
           THEN ~geometry.drawn
           ELSE /\ geometry.drawn
                /\ Len(geometry.position) = 6 * (k - 1)
                /\ \A i \in 1..(k - 1) :
                     /\ SubSeq(geometry.position, 6 * i - 5, 6 * i - 3)
                          = NthOfCategory(stars, activeCategory, i).position
                     /\ SubSeq(geometry.position, 6 * i - 2, 6 * i)
                          = NthOfCategory(stars, activeCategory, i + 1).position)
  /\ [][(/\ activeCategory' = activeCategory
          /\ \/ \E j \in 1..Len(stars) :
                  /\ stars[j].category # activeCategory
                  /\ stars' = RemoveAt(stars, j)
             \/ \E j \in 1..Len(stars') :
                  /\ stars'[j].category # activeCategory
                  /\ stars = RemoveAt(stars', j))
        => lineGeometry(stars', activeCategory') = lineGeometry(stars, activeCategory)]_vars

\* three stars of the selected category are left after the star of another
\* category that stood between them was deleted: two segments
C23_Witness ==
  /\ activeCategory = "reading"
  /\ [i \in 1..Len(stars) |-> stars[i].id] = <<1, 3, 4>>
  /\ lineGeometry(stars, activeCategory).position
       = <<10, 0, 0, -30, 2, 7, -30, 2, 7, 0, -3, 40>>

\* C24: every star of the list is rendered with the hover multiplier exactly
\* when hoveredStarId is its id, otherwise with the selection multiplier
\* exactly when activeCategory is its category, otherwise with the breathing
\* scale alone; a star that is hovered and selected gets the hover multiplier.
C24_RenderMode ==
  \A i \in 1..Len(stars) :
    LET star == stars[i]
        hovered == hoveredStarId = star.id
        selected == activeCategory = star.category
    IN /\ starScale(star) = "hover" <=> hovered
       /\ starScale(star) = "selected" <=> (~hovered /\ selected)
       /\ starScale(star) = "breathe" <=> (~hovered /\ ~selected)

\* one star is hovered and of the selected category, another is of the
\* selected category only, a third is neither
C24_Witness ==
  /\ activeCategory = "reading" /\ Len(stars) = 4 /\ hoveredStarId = 1
  /\ starScale(stars[1]) = "hover"
  /\ starScale(stars[3]) = "selected"
  /\ starScale(stars[2]) = "breathe"

\* C25: a frame tick (the only step that advances the frame clock) leaves
\* stars, the pending list, categories, entries, hoveredStarId, activeCategory
\* and the drag target unchanged; what it writes are render parameters only,
\* so no other variable of the application changes either.
C25_FramePureRead ==
  [][clock' > clock =>
       /\ UNCHANGED <<stars, pendingFragments, categories, entries,
                      hoveredStarId, activeCategory, dragHoverCategory>>
       /\ UNCHANGED <<storage, writeVars, dragging, showDetailPanel, dialogVars,
                      idSeq, nebulaData, starPositions>>]_vars

\* a frame has been drawn while a star was hovered, a category selected, a
\* fragment dragged over an anchor and a star in the list
C25_Witness ==
  /\ clock > 0 /\ stars # <<>> /\ pendingFragments # <<>>
  /\ hoveredStarId # NoId /\ activeCategory # NULL
  /\ dragging # NoId /\ dragHoverCategory # NULL

\* C26: from the submission to the settling of the classification call the
\* loading flag is true and the frame tick stays enabled (a frame drawn in
\* between leaves the flag and the call alone); the step in which the call
\* settles, with a category or with a failure, sets loading to false.
C26_LoadingWhileClassifying ==
  /\ [](request # NoRequest =>
          /\ loading
          /\ clock < MaxFrames => ENABLED FrameTick)
  /\ [][/\ (request = NoRequest /\ request' # NoRequest) => loading'
        /\ (request # NoRequest /\ clock' > clock) =>
              (loading' /\ request' = request)
        /\ (request # NoRequest /\ request' # request) =>
              (~loading' /\ request' = NoRequest)
        /\ \A outcome \in Outcomes : Settle(outcome) => ~loading']_vars

\* a call is outstanding, the overlay is shown and the next frame can be drawn
C26_Witness ==
  /\ loading /\ request # NoRequest /\ isWriting
  /\ clock < MaxFrames /\ ENABLED FrameTick

C29_DragTargetOnlyInDrag ==
  /\ [](dragging = NoId => dragHoverCategory = NULL)
  /\ [][/\ (dragHoverCategory' # dragHoverCategory /\ dragHoverCategory' # NULL) =>
              \E point \in DragPoints : DragMove(point)
        /\ (dragging # NoId /\ dragging' = NoId) => dragHoverCategory' = NULL]_vars

\* a drag has ended in a promotion, another fragment is still pending, and
\* the target is none again
C29_Witness ==
  /\ stars # <<>> /\ pendingFragments # <<>>
  /\ dragging = NoId /\ dragHoverCategory = NULL

\* C30: a submission starts only while no classification call is outstanding
\* and the text is not blank (while loading, or on blank text, the submit
\* step is disabled), so at most one call is outstanding; the step in which a
\* call resolves puts exactly one entry at the front of the entry list and
\* appends one pending fragment for each distinct manual fragment of the
\* submission.
C30_OneSubmission ==
  /\ []((loading \/ trim(inputText) = <<>>) => ~ENABLED RealizeStardust)
  /\ [][/\ (request' # request /\ request' # NoRequest) =>
              /\ ~loading /\ request = NoRequest
              /\ trim(inputText) # <<>>
        /\ \A outcome \in Outcomes :
             (Settle(outcome) /\ categorizeEntry(outcome, request.categories).status = "resolved") =>
               LET distinct == Range(request.manualFragments)
                   added == SubSeq(pendingFragments', Len(pendingFragments) + 1,
                                   Len(pendingFragments'))
               IN /\ Len(entries') = Len(entries) + 1
                  /\ Tail(entries') = entries
                  /\ entries'[1].text = Str(request.text)
                  /\ SubSeq(pendingFragments', 1, Len(pendingFragments)) = pendingFragments
                  /\ Len(added) = Cardinality(distinct)
                  /\ {added[i].text : i \in 1..Len(added)} = distinct
                  /\ \A i \in 1..Len(added) : added[i].entryId = entries'[1].id]_vars

\* the new entry stands before the stored one and its two fragments are
\* pending
C30_Witness ==
  /\ ~loading /\ request = NoRequest
  /\ Len(entries) = 2 /\ entries[2] = EarlierEntries[1]
  /\ Len(entries[1].fragments) = 2 /\ Len(pendingFragments) = 2

====
